---------------------------- MODULE Spec2Model ----------------------------
(***************************************************************************)
(* Model of the agent core of ganwy2017/formation_control-1                *)
(* (src/src/agent_core.cpp): the periodic pipeline                         *)
(* consensus -> publish -> control -> guidance -> dynamics, the two        *)
(* asynchronous subscriber callbacks, and the statistics codec.            *)
(*                                                                         *)
(* Numbers.  The code computes on doubles.  The model computes on the      *)
(* integers with a configuration (sample_time_ = 2, unit gains) under      *)
(* which the consensus and control arithmetic is exact.  Eigen vectors     *)
(* are tuples; the code's 0-based index i is the tuple index i + 1 (At0).  *)
(*                                                                         *)
(* Undefined behaviour.  The code indexes Eigen objects one past their     *)
(* end.  Eigen checks the index when assertions are compiled in and the    *)
(* process aborts; with NDEBUG the access is unchecked: a read yields      *)
(* whatever the heap holds there (a value of Indeterminate) and a write    *)
(* lands outside the object.  The build is the variable eigen_assert,      *)
(* chosen in Init.                                                         *)
(***************************************************************************)
EXTENDS Integers, Sequences, FiniteSets, TLC

\* ------------------------------------------------------------- configuration
\* private_node_handle_->param(...) values; the header with the defaults is
\* not part of the sources, the values below are one admissible configuration.
number_of_stats_ == 5
number_of_velocities_ == 2
sample_time_ == 2
velocity_virtual_threshold_ == 5
los_distance_threshold_ == 2
speed_min_ == 0
speed_max_ == 2
steer_min_ == -1
steer_max_ == 1
k_p_speed_ == 1
k_i_speed_ == 1
k_p_steer_ == 2
vehicle_length_ == 1
world_limit_ == 1
serial_timeout_ == 2

\* diag_elements_gamma / lambda / b: the defaults of the constructor
\* (ones, zeros, ones).
diag_elements_gamma == <<1, 1, 1, 1, 1>>
diag_elements_lambda == <<0, 0, 0, 0, 0>>
diag_elements_b == <<1, 1>>

\* the configured neighbour ids (std::find over neighbours_)
neighbours_ == {1, 2}

\* ------------------------------------------------------------------- bounds
MaxTicks == 2
MaxDeliveries == 2
MaxTargetUpdates == 1
MaxBatch == 5
IndeterminateHi == 12
CodecMaxVal == 1
MaxTime == 5
MaxPmTicks == 4
MaxReceived == 2
MaxSent == 1

\* what an unchecked read past the end of an Eigen vector can return
Indeterminate == {0, IndeterminateHi}

\* ------------------------------------------------------------------ helpers
Min2(a, b) == IF a < b THEN a ELSE b
Max2(a, b) == IF a > b THEN a ELSE b

\* Eigen's operator()(i), 0-based, on a vector held as a tuple
At0(v, i) == v[i + 1]

VecAdd(a, b) == [i \in 1..Len(a) |-> a[i] + b[i]]
VecSub(a, b) == [i \in 1..Len(a) |-> a[i] - b[i]]
VecScale(a, k) == [i \in 1..Len(a) |-> a[i] * k]

RECURSIVE SumTo(_, _)
SumTo(f, n) == IF n = 0 THEN 0 ELSE f[n] + SumTo(f, n - 1)

\* ----------------------------------------------------------------- messages
\* agent_test::FormationStatistics: five named fields, zero when
\* default-constructed
FormationStatistics(a, b, c, d, e) ==
  [m_x |-> a, m_y |-> b, m_xx |-> c, m_xy |-> d, m_yy |-> e]

DefaultMsg == FormationStatistics(0, 0, 0, 0, 0)

\* AgentCore::statsMsgToVector
statsMsgToVector(msg) == <<msg.m_x, msg.m_y, msg.m_xx, msg.m_xy, msg.m_yy>>

\* AgentCore::statsVectorToMsg on a build without Eigen's index check: the
\* fields are read at the indices 1..5 of a 0-based vector, so the last read
\* is one past the end and yields oob.
VectorRead(vector, i, oob) == IF i < Len(vector) THEN At0(vector, i) ELSE oob

\* statsVectorToMsg without the size check of lines 241-244
statsVectorToMsgUnchecked(vector, oob) ==
  FormationStatistics(VectorRead(vector, 1, oob), VectorRead(vector, 2, oob),
                      VectorRead(vector, 3, oob), VectorRead(vector, 4, oob),
                      VectorRead(vector, 5, oob))

statsVectorToMsg(vector, oob) ==
  IF Len(vector) # number_of_stats_
    THEN DefaultMsg
    ELSE FormationStatistics(VectorRead(vector, 1, oob), VectorRead(vector, 2, oob),
                             VectorRead(vector, 3, oob), VectorRead(vector, 4, oob),
                             VectorRead(vector, 5, oob))

\* TRUE when statsVectorToMsg indexes the vector out of its range (Eigen's
\* assertion fires on a build that has it)
statsVectorToMsgOutOfRange(vector) ==
  Len(vector) = number_of_stats_ /\ 5 >= Len(vector)

\* ---------------------------------------------------------------- std::stoi
\* frame_id is a string, held as a tuple of one-character strings.
Digits == <<"0", "1", "2", "3", "4", "5", "6", "7", "8", "9">>
IsDigit(c) == \E d \in 1..10 : Digits[d] = c
DigitVal(c) == (CHOOSE d \in 1..10 : Digits[d] = c) - 1

RECURSIVE SkipSpace(_)
SkipSpace(s) == IF s # <<>> /\ Head(s) = " " THEN SkipSpace(Tail(s)) ELSE s

RECURSIVE ParseDigits(_, _)
ParseDigits(s, acc) ==
  IF s # <<>> /\ IsDigit(Head(s))
    THEN ParseDigits(Tail(s), 10 * acc + DigitVal(Head(s)))
    ELSE acc

\* std::stoi: leading blanks, an optional sign, then digits; what follows
\* the digits is ignored; no digit at all throws std::invalid_argument.
stoi(str) ==
  LET s == SkipSpace(str)
      neg == s # <<>> /\ Head(s) = "-"
      body == IF s # <<>> /\ Head(s) \in {"-", "+"} THEN Tail(s) ELSE s
  IN IF body # <<>> /\ IsDigit(Head(body))
       THEN [ok |-> TRUE,
             value |-> IF neg THEN -ParseDigits(body, 0) ELSE ParseDigits(body, 0)]
       ELSE [ok |-> FALSE, value |-> 0]


\* ----------------------------------------------------------- linear algebra
\* Eigen::MatrixXd::Identity(rows, cols); a matrix is a tuple of rows
Identity(rows, cols) ==
  [r \in 1..rows |-> [c \in 1..cols |-> IF r = c THEN 1 ELSE 0]]

\* m(r, c) = val with 0-based r, c on a build without the index check: an
\* index inside the matrix is written, an index outside it is a write past
\* the matrix's storage, which leaves every coefficient as it was.
MatrixWrite(m, r, c, val) ==
  IF r < Len(m) /\ c < Len(m[1])
    THEN [m EXCEPT ![r + 1] = [@ EXCEPT ![c + 1] = val]]
    ELSE m

MatrixInRange(m, r, c) == r < Len(m) /\ c < Len(m[1])

\* Jphi' * diag(d) * v : a 2-vector
JtDiagVec(J, d, v) ==
  [c \in 1..number_of_velocities_ |->
     SumTo([r \in 1..number_of_stats_ |-> J[r][c] * d[r] * v[r]], number_of_stats_)]

\* B + Jphi' * Lambda * Jphi : a 2x2 matrix
GainMatrix(J) ==
  [a \in 1..number_of_velocities_ |->
     [c \in 1..number_of_velocities_ |->
        (IF a = c THEN diag_elements_b[a] ELSE 0)
        + SumTo([r \in 1..number_of_stats_ |->
                   J[r][a] * diag_elements_lambda[r] * J[r][c]], number_of_stats_)]]

Det2(M) == M[1][1] * M[2][2] - M[1][2] * M[2][1]

\* inverse(M) * rhs for a 2x2 M by the adjugate; exact when det divides
Solve2(M, rhs) ==
  << (M[2][2] * rhs[1] - M[1][2] * rhs[2]) \div Det2(M),
     (M[1][1] * rhs[2] - M[2][1] * rhs[1]) \div Det2(M) >>

Solve2Exact(M, rhs) ==
  /\ Det2(M) # 0
  /\ (M[2][2] * rhs[1] - M[1][2] * rhs[2]) % Det2(M) = 0
  /\ (M[1][1] * rhs[2] - M[2][1] * rhs[1]) % Det2(M) = 0

\* floor of the square root
RECURSIVE ISqrt(_)
ISqrt(n) ==
  IF n < 2 THEN n
  ELSE LET small == 2 * ISqrt(n \div 4)
       IN IF (small + 1) * (small + 1) > n THEN small ELSE small + 1
IsSquare(n) == ISqrt(n) * ISqrt(n) = n

\* AgentCore::integrator
integrator(out_old, in_old, in_new, k) ==
  out_old + (k * sample_time_ * (in_old + in_new)) \div 2

\* saturation without the upper limit
saturationFromBelow(value, min, max) == Max2(value, min)

\* AgentCore::saturation
saturation(value, min, max) == Min2(Max2(value, min), max)

\* -------------------------------------------------------------------- state
VARIABLES
  eigen_assert,           \* the build: TRUE when Eigen's index checks are compiled in
  halted,                 \* "no", or what ended the process
  pc,                     \* position inside algorithmCallback; "idle" between ticks
  ticks,                  \* timer events dispatched so far
  steps,                  \* history: the steps completed by the current / last tick
  estimated_statistics_,
  target_statistics_,
  received_statistics_,
  received_from,          \* history: frame_id and delivery number of each buffered entry
  deliveries,             \* receivedStatsCallback invocations so far
  warnings,               \* ROS_WARN_STREAM lines written by receivedStatsCallback
  target_updates,         \* targetStatsCallback invocations so far
  last_target,            \* history: the argument of the last targetStatsCallback
  last_known,             \* history: the statistics of the last batch's entries
                          \* whose frame_id names a configured neighbour
  published,              \* messages handed to stats_publisher_
  pose_virtual_, twist_virtual_, jacob_phi_,
  pose_, twist_,
  los_distance_, los_angle_,
  speed_error_, speed_integral_, speed_command_sat_, steer_command_sat_,
  cons,                   \* history: what the last consensus() call saw and produced
  ctl,                    \* history: what the last control() call saw and produced
  codec_pc, codec_in, codec_mid, codec_out,  \* the statistics codec applied on its own
  pm_state,               \* the packet manager node: "off", "running" or "shutdown"
  pm_callback_registered, \* TRUE when the deserialiser reaches newPacket
  pm_now,                 \* ros::Time::now() as the packet manager reads it
  time_last_packet_,
  packet_queue_,
  pm_published,           \* the packets processPackets has published, in order
  pm_serial_reads,        \* calls of serialReceivePacket
  pm_serial_writes,       \* the headers serialSendPacket was called with
  pm_ticks                \* calls of PacketManagerCore::algorithmCallback

agentVars == <<eigen_assert, halted, pc, ticks, steps, estimated_statistics_,
               target_statistics_, received_statistics_, received_from, deliveries,
               warnings, target_updates, last_target, last_known, published,
               pose_virtual_, twist_virtual_, jacob_phi_, pose_, twist_,
               los_distance_, los_angle_,
               speed_error_, speed_integral_, speed_command_sat_, steer_command_sat_,
               cons, ctl>>
codecVars == <<codec_pc, codec_in, codec_mid, codec_out>>
packetVars == <<pm_state, pm_callback_registered, pm_now, time_last_packet_,
                packet_queue_, pm_published, pm_serial_reads, pm_serial_writes,
                pm_ticks>>
vars == <<agentVars, codecVars, packetVars>>

\* the pipeline steps of one tick, in the order of algorithmCallback
Pipeline == <<"consensus", "publish", "control", "guidance", "dynamics">>

NoCons == [started |-> FALSE, completed |-> FALSE]
NoCtl == [started |-> FALSE, completed |-> FALSE]

\* initial positions: a subset of [-world_limit_, world_limit_]
InitCoords == 0..world_limit_
InitThetas == {0, 1}

\* The constructor assigns nothing to speed_error_ and speed_integral_: the PI
\* controller starts from whatever the object's storage holds, here zero or a
\* negative value.
InitIntegrals == {-4, 0}

\* The state the constructor leaves.
AgentInit ==
  /\ eigen_assert \in BOOLEAN
  /\ halted = "no"
  /\ pc = "idle"
  /\ ticks = 0
  /\ steps = <<>>
  /\ estimated_statistics_ = DefaultMsg
  /\ target_statistics_ = DefaultMsg
  /\ received_statistics_ = <<>>
  /\ received_from = <<>>
  /\ deliveries = 0
  /\ warnings = 0
  /\ target_updates = 0
  /\ last_target = DefaultMsg
  /\ last_known = <<>>
  /\ published = <<>>
  /\ \E x \in InitCoords, y \in InitCoords, theta \in InitThetas :
       /\ pose_ = [x |-> x, y |-> y, theta |-> theta]
       /\ pose_virtual_ = [x |-> x, y |-> y, theta |-> theta]
  /\ twist_virtual_ = [x |-> 0, y |-> 0]
  /\ twist_ = [x |-> 0, y |-> 0, z |-> 0]
  /\ jacob_phi_ = Identity(number_of_stats_, number_of_velocities_)
  /\ los_distance_ = 0
  /\ los_angle_ = 0
  /\ speed_error_ \in InitIntegrals
  /\ speed_integral_ \in InitIntegrals
  /\ speed_command_sat_ = 0
  /\ steer_command_sat_ = 0
  /\ cons = NoCons
  /\ ctl = NoCtl

CodecIdle ==
  /\ codec_pc = "off"
  /\ codec_in = <<>>
  /\ codec_mid = <<>>
  /\ codec_out = <<>>

\* no packet manager node in this process
PacketIdle ==
  /\ pm_state = "off"
  /\ pm_callback_registered = FALSE
  /\ pm_now = 0
  /\ time_last_packet_ = 0
  /\ packet_queue_ = <<>>
  /\ pm_published = <<>>
  /\ pm_serial_reads = 0
  /\ pm_serial_writes = <<>>
  /\ pm_ticks = 0

Init == AgentInit /\ CodecIdle /\ PacketIdle

\* ---------------------------------------------------------------- consensus
\* AgentCore::statsMsgToMatrix: the rows 0 .. number_of_stats_-1 are read
\* with msg.at(i), whatever the length of msg.
statsMsgToMatrix(msg) == [i \in 1..number_of_stats_ |-> statsMsgToVector(msg[i])]

\* msg.at(i) throws std::out_of_range for i >= msg.size()
statsMsgToMatrixThrows(msg) == Len(msg) < number_of_stats_

\* time derivative of phi(p) = [px, py, pxx, pxy, pyy]
PhiDot(p, v) == << v.x, v.y, 2 * p.x * v.x, p.y * v.x + p.x * v.y, 2 * p.y * v.y >>

\* (x_j.rowwise() - x).colwise().sum()
ColwiseSumOfDiff(x_j, x) ==
  [c \in 1..Len(x) |-> SumTo([r \in 1..Len(x_j) |-> x_j[r][c] - x[c]], Len(x_j))]

\* x += phi_dot_*sample_time_ + (x_j.rowwise() - x).colwise().sum()*sample_time_
ConsensusUpdate(x, x_j, phi_dot) ==
  VecAdd(x, VecAdd(VecScale(phi_dot, sample_time_),
                   VecScale(ColwiseSumOfDiff(x_j, x), sample_time_)))

\* AgentCore::consensus, entered by a timer event
consensus ==
  /\ pc = "idle" /\ halted = "no" /\ ticks < MaxTicks
  /\ ticks' = ticks + 1
  /\ LET x == statsMsgToVector(estimated_statistics_)
         phi_dot == PhiDot(pose_virtual_, twist_virtual_)
         seen == [started |-> TRUE, n |-> Len(received_statistics_),
                  buffer |-> received_statistics_, x |-> x, phi_dot |-> phi_dot]
     IN IF statsMsgToMatrixThrows(received_statistics_)
          THEN \* std::out_of_range leaves the callback; nothing was changed yet
               /\ halted' = "out_of_range"
               /\ steps' = <<>>
               /\ cons' = seen @@ [completed |-> FALSE,
                                    estimated |-> estimated_statistics_]
               /\ UNCHANGED <<pc, estimated_statistics_, received_statistics_,
                              received_from>>
          ELSE LET x_j == statsMsgToMatrix(received_statistics_)
                   x_new == ConsensusUpdate(x, x_j, phi_dot)
               IN /\ received_statistics_' = <<>>
                  /\ received_from' = <<>>
                  /\ IF eigen_assert /\ statsVectorToMsgOutOfRange(x_new)
                       THEN \* Eigen's index assertion aborts the process
                            /\ halted' = "abort"
                            /\ steps' = <<>>
                            /\ cons' = seen @@ [completed |-> FALSE,
                                                 estimated |-> estimated_statistics_]
                            /\ UNCHANGED <<pc, estimated_statistics_>>
                       ELSE \E oob \in Indeterminate :
                            /\ estimated_statistics_' = statsVectorToMsg(x_new, oob)
                            /\ pc' = "publish"
                            /\ steps' = <<"consensus">>
                            /\ cons' = seen @@ [completed |-> TRUE,
                                                 estimated |-> statsVectorToMsg(x_new, oob)]
                            /\ UNCHANGED halted
  /\ UNCHANGED <<packetVars, codecVars, last_known, eigen_assert, target_statistics_, deliveries, warnings,
                 target_updates, last_target, published, pose_virtual_,
                 twist_virtual_, jacob_phi_, pose_, twist_, los_distance_,
                 los_angle_, speed_error_, speed_integral_, speed_command_sat_,
                 steer_command_sat_, ctl>>

\* algorithmCallback, lines 89-93: the estimate is published
publish ==
  /\ pc = "publish" /\ halted = "no"
  /\ published' = Append(published, [stamp |-> ticks, stats |-> estimated_statistics_])
  /\ steps' = Append(steps, "publish")
  /\ pc' = "control"
  /\ UNCHANGED <<packetVars, codecVars, last_known, eigen_assert, halted, ticks, estimated_statistics_,
                 target_statistics_, received_statistics_, received_from,
                 deliveries, warnings, target_updates, last_target, pose_virtual_,
                 twist_virtual_, jacob_phi_, pose_, twist_, los_distance_,
                 los_angle_, speed_error_, speed_integral_, speed_command_sat_,
                 steer_command_sat_, cons, ctl>>

\* ------------------------------------------------------------------ control
\* The four assignments of control() to jacob_phi_, in order, on a build
\* without the index check.
JacobianWrites(J, p) ==
  MatrixWrite(MatrixWrite(MatrixWrite(MatrixWrite(J, 3, 1, 2 * p.x),
                                      4, 1, p.y),
                          4, 2, p.x),
              5, 2, 2 * p.y)

\* what jacob_phi_ holds when the index assertion of jacob_phi_(4,2) fires
JacobianWritesBeforeAbort(J, p) ==
  MatrixWrite(MatrixWrite(J, 3, 1, 2 * p.x), 4, 1, p.y)

JacobianOutOfRange(J) ==
  \/ ~MatrixInRange(J, 3, 1) \/ ~MatrixInRange(J, 4, 1)
  \/ ~MatrixInRange(J, 4, 2) \/ ~MatrixInRange(J, 5, 2)

\* twist_virtual = inv(B + Jphi'*lambda*Jphi) * Jphi' * gamma * stats_error
ControlLaw(J, stats_error) ==
  Solve2(GainMatrix(J), JtDiagVec(J, diag_elements_gamma, stats_error))

ControlLawExact(J, stats_error) ==
  Solve2Exact(GainMatrix(J), JtDiagVec(J, diag_elements_gamma, stats_error))

\* current_velocity_virtual, squared: control_law(1)^2 + control_law(2)^2
VelocityVirtualSquared(control_law, oob) ==
  VectorRead(control_law, 1, oob) * VectorRead(control_law, 1, oob)
  + VectorRead(control_law, 2, oob) * VectorRead(control_law, 2, oob)

\* if (current_velocity_virtual > velocity_virtual_threshold_)
Saturates(control_law, oob) ==
  VelocityVirtualSquared(control_law, oob)
    > velocity_virtual_threshold_ * velocity_virtual_threshold_

\* control_law *= velocity_virtual_threshold_ / current_velocity_virtual acts on
\* the elements of the vector; the element read past its end is not part of it
\* and keeps its value.  Coefficient i (0-based) as lines 138-141 read it.
CommandRead(control_law, i, oob) ==
  IF i < Len(control_law) /\ Saturates(control_law, oob)
    THEN (At0(control_law, i) * velocity_virtual_threshold_)
           \div ISqrt(VelocityVirtualSquared(control_law, oob))
    ELSE VectorRead(control_law, i, oob)

\* the saturation is exact on the integers
CommandExact(control_law, oob) ==
  Saturates(control_law, oob) =>
    /\ IsSquare(VelocityVirtualSquared(control_law, oob))
    /\ \A i \in 1..2 : i < Len(control_law) =>
         (At0(control_law, i) * velocity_virtual_threshold_)
            % ISqrt(VelocityVirtualSquared(control_law, oob)) = 0

\* AgentCore::control
control ==
  /\ pc = "control" /\ halted = "no"
  /\ LET stats_error == VecSub(statsMsgToVector(target_statistics_),
                               statsMsgToVector(estimated_statistics_))
         seen == [started |-> TRUE, target |-> target_statistics_,
                  estimated |-> estimated_statistics_, position |-> pose_virtual_,
                  twist_old |-> twist_virtual_, stats_error |-> stats_error]
     IN IF eigen_assert /\ JacobianOutOfRange(jacob_phi_)
          THEN /\ halted' = "abort"
               /\ jacob_phi_' = JacobianWritesBeforeAbort(jacob_phi_, pose_virtual_)
               /\ ctl' = seen @@ [completed |-> FALSE, jacobian |-> jacob_phi_,
                                  control_law |-> <<>>, saturated |-> FALSE,
                                  magnitude |-> 0, used |-> <<>>]
               /\ UNCHANGED <<pc, steps, pose_virtual_, twist_virtual_>>
          ELSE LET J == JacobianWrites(jacob_phi_, pose_virtual_)
                   control_law == ControlLaw(J, stats_error)
               IN /\ ControlLawExact(J, stats_error)
                  /\ jacob_phi_' = J
                  /\ \E oob \in Indeterminate :
                       LET u1 == CommandRead(control_law, 1, oob)
                           u2 == CommandRead(control_law, 2, oob)
                       IN /\ CommandExact(control_law, oob)
                          /\ pose_virtual_' =
                               [pose_virtual_ EXCEPT
                                  !.x = integrator(pose_virtual_.x, twist_virtual_.x, u1, 1),
                                  !.y = integrator(pose_virtual_.y, twist_virtual_.y, u2, 1)]
                          /\ twist_virtual_' = [x |-> u1, y |-> u2]
                          /\ ctl' = seen @@ [completed |-> TRUE, jacobian |-> J,
                                             control_law |-> control_law,
                                             saturated |-> Saturates(control_law, oob),
                                             magnitude |->
                                               ISqrt(VelocityVirtualSquared(control_law, oob)),
                                             used |-> <<u1, u2>>]
                  /\ pc' = "guidance"
                  /\ steps' = Append(steps, "control")
                  /\ UNCHANGED halted
  /\ UNCHANGED <<packetVars, codecVars, last_known, eigen_assert, ticks, estimated_statistics_, target_statistics_,
                 received_statistics_, received_from, deliveries, warnings,
                 target_updates, last_target, published, pose_, twist_,
                 los_distance_, los_angle_, speed_error_, speed_integral_,
                 speed_command_sat_, steer_command_sat_, cons>>

\* ----------------------------------------------------------------- guidance
\* Angles are counted in quarter turns, so that cos and sin are exact; M_PI
\* is two quarter turns.
M_PI == 2

\* std::fmod: the remainder has the sign of the dividend
fmod(a, b) == IF a < 0 THEN -((-a) % b) ELSE a % b

\* std::atan2 in quarter turns, in (-M_PI, M_PI]: exact on the axes (0 at the
\* origin); off the axes one of the two quarter turns that bound the quadrant.
Atan2Vals(dy, dx) ==
  IF dy = 0 THEN (IF dx >= 0 THEN {0} ELSE {M_PI})
  ELSE IF dx = 0 THEN (IF dy > 0 THEN {1} ELSE {-1})
  ELSE IF dy > 0 THEN (IF dx > 0 THEN {0, 1} ELSE {1, M_PI})
  ELSE (IF dx > 0 THEN {-1, 0} ELSE {-M_PI, -1})

\* AgentCore::guidance; std::sqrt is taken on the integer grid
guidance ==
  /\ pc = "guidance" /\ halted = "no"
  /\ LET dx == pose_virtual_.x - pose_.x
         dy == pose_virtual_.y - pose_.y
         distance == ISqrt(dx * dx + dy * dy)
         speed_reference ==
           Min2((speed_max_ * distance) \div los_distance_threshold_, speed_max_)
         speed_error_old == speed_error_
         speed_error_new ==
           speed_reference - ISqrt(twist_.x * twist_.x + twist_.y * twist_.y)
         speed_integral_new ==
           integrator(speed_integral_, speed_error_old, speed_error_new, k_i_speed_)
         speed_command == k_p_speed_ * (speed_error_new + speed_integral_new)
     IN /\ los_distance_' = distance
        /\ speed_error_' = speed_error_new
        /\ speed_integral_' = speed_integral_new
        /\ speed_command_sat_' = saturation(speed_command, speed_min_, speed_max_)
        /\ \E angle \in Atan2Vals(dy, dx) :
             /\ los_angle_' = angle
             /\ steer_command_sat_' =
                  saturation(k_p_steer_ * fmod(angle - pose_.theta, M_PI),
                             steer_min_, steer_max_)
  /\ pc' = "dynamics"
  /\ steps' = Append(steps, "guidance")
  /\ UNCHANGED <<packetVars, codecVars, last_known, eigen_assert, halted, ticks, estimated_statistics_,
                 target_statistics_, received_statistics_, received_from,
                 deliveries, warnings, target_updates, last_target, published,
                 pose_virtual_, twist_virtual_, jacob_phi_, pose_, twist_, cons, ctl>>

\* ----------------------------------------------------------------- dynamics
\* cos and sin of a whole number of quarter turns
Cos(theta) == <<1, 0, -1, 0>>[(theta % 4) + 1]
Sin(theta) == <<0, 1, 0, -1>>[(theta % 4) + 1]

\* std::tan keeps the sign of a steering angle; its magnitude is not a grid
\* value and is drawn from a small range.
TanVals(steer) ==
  IF steer = 0 THEN {0} ELSE IF steer > 0 THEN 1..2 ELSE {-2, -1}

\* AgentCore::dynamics.  Line 152 assigns twist_.linear.y before line 156
\* reads it.
dynamics ==
  /\ pc = "dynamics" /\ halted = "no"
  /\ LET theta == pose_.theta
         x_dot_new == speed_command_sat_ * Cos(theta)
         y_dot_new == speed_command_sat_ * Sin(theta)
         twist_linear_y == y_dot_new
     IN \E tan \in TanVals(steer_command_sat_) :
          LET theta_dot_new == (speed_command_sat_ \div vehicle_length_) * tan
          IN /\ pose_' = [x |-> integrator(pose_.x, twist_.x, x_dot_new, 1),
                          y |-> integrator(pose_.y, twist_linear_y, y_dot_new, 1),
                          theta |-> integrator(theta, twist_.z, theta_dot_new, 1)]
             /\ twist_' = [x |-> x_dot_new, y |-> y_dot_new, z |-> theta_dot_new]
  /\ pc' = "idle"
  /\ steps' = Append(steps, "dynamics")
  /\ UNCHANGED <<packetVars, codecVars, last_known, eigen_assert, halted, ticks, estimated_statistics_,
                 target_statistics_, received_statistics_, received_from,
                 deliveries, warnings, target_updates, last_target, published,
                 pose_virtual_, twist_virtual_, jacob_phi_, los_distance_,
                 los_angle_, speed_error_, speed_integral_, speed_command_sat_,
                 steer_command_sat_, cons, ctl>>

\* AgentCore::algorithmCallback: the steps of one tick
algorithmCallback == consensus \/ publish \/ control \/ guidance \/ dynamics

\* ---------------------------------------------------- subscriber callbacks
\* header.frame_id values on the wire: a configured neighbour, a numeric id
\* that is no neighbour, and an id that is no number
FrameIds == {<<"1">>, <<"3">>, <<"x">>}

\* statistics carried by the delivered entries
ObsMsgs == {FormationStatistics(1, 0, 0, 0, 0)}

Entries == [frame_id : FrameIds, stats : ObsMsgs]

Repeat(e, k) == [i \in 1..k |-> e]

\* received.vector: k copies of one entry, or two entries
Batches ==
  {Repeat(e, k) : e \in Entries, k \in 0..MaxBatch}
  \cup {<<e1, e2>> : e1 \in Entries, e2 \in Entries}

\* The loop of receivedStatsCallback over received.vector: an entry is pushed
\* when std::stoi of its frame_id is found in neighbours_; std::stoi throwing
\* leaves the loop with what was pushed so far.
RECURSIVE PushKnown(_, _, _, _)
PushKnown(buffer, from, batch, delivery) ==
  IF batch = <<>>
    THEN [buffer |-> buffer, from |-> from, thrown |-> FALSE]
    ELSE LET data == Head(batch)
             id == stoi(data.frame_id)
         IN IF ~id.ok
              THEN [buffer |-> buffer, from |-> from, thrown |-> TRUE]
              ELSE IF id.value \in neighbours_
                THEN PushKnown(Append(buffer, data.stats),
                               Append(from, [frame_id |-> data.frame_id,
                                             delivery |-> delivery]),
                               Tail(batch), delivery)
                ELSE PushKnown(buffer, from, Tail(batch), delivery)

\* the agent id a frame_id spells, when it spells one of the NeighborSet
NamesNeighbour(frame_id) ==
  \E n \in neighbours_ : frame_id = <<Digits[n + 1]>>

\* the statistics of the entries of a batch sent by configured neighbours
RECURSIVE KnownStats(_)
KnownStats(batch) ==
  IF batch = <<>> THEN <<>>
  ELSE IF NamesNeighbour(Head(batch).frame_id)
    THEN <<Head(batch).stats>> \o KnownStats(Tail(batch))
    ELSE KnownStats(Tail(batch))

\* AgentCore::receivedStatsCallback
receivedStatsCallback(received) ==
  /\ pc = "idle" /\ halted = "no" /\ deliveries < MaxDeliveries
  /\ deliveries' = deliveries + 1
  /\ warnings' = IF received_statistics_ # <<>> THEN warnings + 1 ELSE warnings
  /\ LET after == PushKnown(received_statistics_, received_from, received,
                            deliveries + 1)
     IN /\ received_statistics_' = after.buffer
        /\ received_from' = after.from
        /\ halted' = IF after.thrown THEN "invalid_argument" ELSE halted
  /\ last_known' = KnownStats(received)
  /\ UNCHANGED <<packetVars, codecVars, eigen_assert, pc, ticks, steps, estimated_statistics_,
                 target_statistics_, target_updates, last_target, published,
                 pose_virtual_, twist_virtual_, jacob_phi_, pose_, twist_,
                 los_distance_, los_angle_, speed_error_, speed_integral_,
                 speed_command_sat_, steer_command_sat_, cons, ctl>>

\* target vectors delivered on the target topic
Targets == {FormationStatistics(0, 0, 1, 0, 1), FormationStatistics(6, 8, 0, 0, 0)}

\* targetStatsCallback taking over the first moments only
targetStatsCallbackPartial(target) ==
  /\ pc = "idle" /\ halted = "no" /\ target_updates < MaxTargetUpdates
  /\ target_updates' = target_updates + 1
  /\ target_statistics_' = [target_statistics_ EXCEPT !.m_x = target.m_x,
                                                      !.m_y = target.m_y]
  /\ last_target' = target
  /\ UNCHANGED <<packetVars, codecVars, last_known, eigen_assert, halted, pc, ticks, steps,
                 estimated_statistics_, received_statistics_, received_from,
                 deliveries, warnings, published, pose_virtual_, twist_virtual_,
                 jacob_phi_, pose_, twist_, los_distance_, los_angle_, speed_error_,
                 speed_integral_, speed_command_sat_, steer_command_sat_, cons, ctl>>

\* AgentCore::targetStatsCallback
targetStatsCallback(target) ==
  /\ pc = "idle" /\ halted = "no" /\ target_updates < MaxTargetUpdates
  /\ target_updates' = target_updates + 1
  /\ target_statistics_' = target
  /\ last_target' = target
  /\ UNCHANGED <<packetVars, codecVars, last_known, eigen_assert, halted, pc, ticks, steps, estimated_statistics_,
                 received_statistics_, received_from, deliveries, warnings,
                 published, pose_virtual_, twist_virtual_, jacob_phi_, pose_,
                 twist_, los_distance_, los_angle_, speed_error_, speed_integral_,
                 speed_command_sat_, steer_command_sat_, cons, ctl>>

\* ------------------------------------------------------------ specification
Next ==
  \/ algorithmCallback
  \/ \E received \in Batches : receivedStatsCallback(received)
  \/ \E target \in Targets : targetStatsCallback(target)

Spec == Init /\ [][Next]_vars

\* ------------------------------------------------------ the codec on its own
\* statsVectorToMsg and statsMsgToVector applied to inputs drawn from bounded
\* sets: vectors of the statistics dimension and of the two neighbouring
\* lengths, and messages.
CodecVals == 0..CodecMaxVal
CodecVectors ==
  UNION {[1..n -> CodecVals] : n \in (number_of_stats_ - 1)..(number_of_stats_ + 1)}
CodecMsgs ==
  {FormationStatistics(a, b, c, d, e) :
     a \in CodecVals, b \in CodecVals, c \in CodecVals, d \in CodecVals, e \in CodecVals}

InitCodec ==
  /\ AgentInit
  /\ PacketIdle
  /\ \/ codec_pc = "vector" /\ codec_in \in CodecVectors
     \/ codec_pc = "message" /\ codec_in \in CodecMsgs
  /\ codec_mid = <<>>
  /\ codec_out = <<>>

\* statsVectorToMsg(codec_in)
codecVectorToMsg ==
  /\ codec_pc = "vector"
  /\ IF eigen_assert /\ statsVectorToMsgOutOfRange(codec_in)
       THEN codec_pc' = "abort" /\ UNCHANGED codec_mid
       ELSE \E oob \in Indeterminate :
              /\ codec_mid' = statsVectorToMsg(codec_in, oob)
              /\ codec_pc' = "vector_encoded"
  /\ UNCHANGED <<agentVars, packetVars, codec_in, codec_out>>

\* statsMsgToVector(statsVectorToMsg(codec_in))
codecMsgToVectorBack ==
  /\ codec_pc = "vector_encoded"
  /\ codec_out' = statsMsgToVector(codec_mid)
  /\ codec_pc' = "vector_done"
  /\ UNCHANGED <<agentVars, packetVars, codec_in, codec_mid>>

\* statsMsgToVector(codec_in)
codecMsgToVector ==
  /\ codec_pc = "message"
  /\ codec_mid' = statsMsgToVector(codec_in)
  /\ codec_pc' = "message_decoded"
  /\ UNCHANGED <<agentVars, packetVars, codec_in, codec_out>>

\* statsVectorToMsg(statsMsgToVector(codec_in))
codecVectorToMsgBack ==
  /\ codec_pc = "message_decoded"
  /\ IF eigen_assert /\ statsVectorToMsgOutOfRange(codec_mid)
       THEN codec_pc' = "abort" /\ UNCHANGED codec_out
       ELSE \E oob \in Indeterminate :
              /\ codec_out' = statsVectorToMsg(codec_mid, oob)
              /\ codec_pc' = "message_done"
  /\ UNCHANGED <<agentVars, packetVars, codec_in, codec_mid>>

NextCodec ==
  \/ codecVectorToMsg
  \/ codecMsgToVectorBack
  \/ codecMsgToVector
  \/ codecVectorToMsgBack

SpecCodec == InitCodec /\ [][NextCodec]_vars

\* ------------------------------------------------------- the packet manager
\* PacketManagerCore is the node between the serial line and the topics.  Its
\* clock is counted in whole seconds.  Bytes on the line are deserialised by
\* the packet manager library; each complete packet it finds reaches newPacket
\* with its header when the callback is registered (the pm_init call of the
\* constructor is commented out, line 63, and the library is a separate file).
PCK_AGENT == "PCK_AGENT"
PCK_TARGET == "PCK_TARGET"
PCK_RECEIVED == "PCK_RECEIVED"

\* packets the serial line can deliver: header and sending agent
SerialPackets ==
  {[header |-> h, agent_id |-> a] : h \in {PCK_AGENT, PCK_TARGET}, a \in neighbours_}
SerialBatches ==
  UNION {[1..n -> SerialPackets] : n \in 0..MaxReceived}

\* the state the constructor leaves; the agent node is another process, held
\* at one of its initial states
PacketInit ==
  /\ pm_state = "running"
  /\ pm_callback_registered \in BOOLEAN
  /\ pm_now = 0
  /\ time_last_packet_ = 0
  /\ packet_queue_ = <<>>
  /\ pm_published = <<>>
  /\ pm_serial_reads = 0
  /\ pm_serial_writes = <<>>
  /\ pm_ticks = 0

InitPacket ==
  /\ AgentInit
  /\ ~eigen_assert
  /\ pose_ = [x |-> 0, y |-> 0, theta |-> 0]
  /\ speed_error_ = 0 /\ speed_integral_ = 0
  /\ CodecIdle
  /\ PacketInit

\* duration_last_packet > ros::Duration(serial_timeout_), line 86
DurationReaches(duration, timeout) == duration >= timeout
DurationExceeds(duration, timeout) == duration > timeout

\* PacketManagerCore::newPacket
newPacket(queue, packet) ==
  IF packet.header = PCK_AGENT THEN Append(queue, packet.agent_id) ELSE queue

\* PacketManagerCore::serialReceivePacket: the queue after the packets of a
\* batch have been deserialised in their order of arrival
RECURSIVE serialReceivePacket(_, _)
serialReceivePacket(queue, batch) ==
  IF batch = <<>> \/ ~pm_callback_registered THEN queue
  ELSE serialReceivePacket(newPacket(queue, Head(batch)), Tail(batch))

\* the passing of time between two callbacks
pm_clock ==
  /\ pm_state = "running"
  /\ pm_now < MaxTime
  /\ pm_now' = pm_now + 1
  /\ UNCHANGED <<agentVars, codecVars, pm_state, pm_callback_registered,
                 time_last_packet_, packet_queue_, pm_published, pm_serial_reads,
                 pm_serial_writes, pm_ticks>>

\* PacketManagerCore::algorithmCallback, with processPackets; the clock may
\* move between the two reads of ros::Time::now() (lines 85 and 103)
pm_algorithmCallback ==
  /\ pm_state = "running"
  /\ pm_ticks < MaxPmTicks
  /\ pm_ticks' = pm_ticks + 1
  /\ LET duration_last_packet == pm_now - time_last_packet_
     IN IF DurationExceeds(duration_last_packet, serial_timeout_)
          THEN /\ pm_state' = "shutdown"
               /\ UNCHANGED <<pm_now, time_last_packet_, packet_queue_, pm_published,
                              pm_serial_reads>>
          ELSE IF packet_queue_ = <<>>
            THEN /\ \E batch \in SerialBatches :
                      packet_queue_' = serialReceivePacket(packet_queue_, batch)
                 /\ pm_serial_reads' = pm_serial_reads + 1
                 /\ UNCHANGED <<pm_state, pm_now, time_last_packet_, pm_published>>
            ELSE /\ pm_published' = Append(pm_published, Head(packet_queue_))
                 /\ packet_queue_' = Tail(packet_queue_)
                 /\ pm_now' \in {pm_now, Min2(pm_now + 1, MaxTime)}
                 /\ time_last_packet_' = pm_now'
                 /\ UNCHANGED <<pm_state, pm_serial_reads>>
  /\ UNCHANGED <<agentVars, codecVars, pm_callback_registered, pm_serial_writes>>

\* PacketManagerCore::serialSendPacket
serialSendPacket(header) ==
  /\ Len(pm_serial_writes) < MaxSent
  /\ pm_serial_writes' = Append(pm_serial_writes, header)
  /\ UNCHANGED <<agentVars, codecVars, pm_state, pm_callback_registered, pm_now,
                 time_last_packet_, packet_queue_, pm_published, pm_serial_reads,
                 pm_ticks>>

\* PacketManagerCore::receivedStatsCallback
pm_receivedStatsCallback ==
  /\ pm_state = "running"
  /\ serialSendPacket(PCK_RECEIVED)

\* PacketManagerCore::targetStatsCallback
pm_targetStatsCallback ==
  /\ pm_state = "running"
  /\ serialSendPacket(PCK_TARGET)

NextPacket ==
  \/ pm_clock
  \/ pm_algorithmCallback
  \/ pm_receivedStatsCallback
  \/ pm_targetStatsCallback

SpecPacket == InitPacket /\ [][NextPacket]_vars

\* =================================================================== claims
IsPrefix(a, b) == Len(a) <= Len(b) /\ \A i \in 1..Len(a) : a[i] = b[i]

\* the algorithm steps among the steps of a tick (the publication left out)
AlgorithmSteps(done) == SelectSeq(done, LAMBDA step : step # "publish")

\* a tick has been dispatched and algorithmCallback is not running: it
\* returned, or an exception or abort left it
TickOver == ticks > 0 /\ (pc = "idle" \/ halted # "no")

\* C1: on every tick the steps consensus, control, guidance, dynamics run
\* once each, in that order, and all four have run when the tick is over;
\* no tick skips a step.
C1_WholePipelineEveryTick ==
  /\ IsPrefix(AlgorithmSteps(steps), <<"consensus", "control", "guidance", "dynamics">>)
  /\ TickOver =>
       AlgorithmSteps(steps) = <<"consensus", "control", "guidance", "dynamics">>

\* the estimate the update rule of the consensus filter gives for the whole
\* buffer: estimated + dt*phi_dot + dt * sum over every buffered observation
ExpectedEstimate(c) ==
  VecAdd(c.x,
         VecAdd(VecScale(c.phi_dot, sample_time_),
                VecScale([k \in 1..number_of_stats_ |->
                            SumTo([j \in 1..c.n |->
                                     statsMsgToVector(c.buffer[j])[k] - c.x[k]], c.n)],
                         sample_time_)))

\* C2: for every number n >= 0 of buffered observations consensus() completes
\* and the new estimate is estimated + dt*phi_dot + dt * sum over all n
\* observations of (received_j - estimated), component by component.
C2_ConsensusUpdate ==
  cons.started =>
    /\ cons.completed
    /\ statsMsgToVector(cons.estimated) = ExpectedEstimate(cons)

\* C3: after any consensus step the received buffer is empty, and a consensus
\* step that starts with an empty buffer completes and changes the estimate
\* by exactly dt*phi_dot.
C3_BufferDrained ==
  /\ (cons.started /\ pc # "idle") => received_statistics_ = <<>>
  /\ (cons.started /\ cons.n = 0) =>
       /\ cons.completed
       /\ statsMsgToVector(cons.estimated)
            = VecAdd(cons.x, VecScale(cons.phi_dot, sample_time_))

\* C4: a batch delivered while the buffer still holds undrained observations
\* is warned about, and afterwards the buffer holds only the observations of
\* that latest batch.
C4_LatestBatchOnly ==
  [][(deliveries' = deliveries + 1 /\ received_statistics_ # <<>>) =>
       /\ warnings' = warnings + 1
       /\ received_statistics_' = last_known']_vars

\* C5: receivedStatsCallback buffers exactly the entries of the batch whose
\* id is in the NeighborSet; an entry with any other id is dropped and changes
\* neither the buffer nor any other state.
C5_OnlyNeighboursBuffered ==
  [][deliveries' = deliveries + 1 =>
       /\ received_statistics_' = received_statistics_ \o last_known'
       /\ \A i \in DOMAIN received_from' : NamesNeighbour(received_from'[i].frame_id)
       /\ halted' = halted]_vars

\* C6: target_statistics_ changes only in a target update, which replaces it
\* by the delivered vector as a whole; every other step leaves it unchanged,
\* and every control step takes its error from the last delivered target.
C6_TargetOnlyByUpdate ==
  [][/\ target_updates' = target_updates => target_statistics_' = target_statistics_
     /\ target_updates' # target_updates => target_statistics_' = last_target'
     /\ (ctl' # ctl /\ ctl'.started) =>
          ctl'.stats_error = VecSub(statsMsgToVector(last_target),
                                    statsMsgToVector(estimated_statistics_))]_vars

\* a control step has run on a target that a target update delivered
C6_Witness ==
  /\ ctl.started /\ ctl.completed
  /\ target_updates > 0
  /\ ctl.target = last_target
  /\ last_target # DefaultMsg

\* C7: each tick emits exactly one EstimatedStatisticsEvent, after the
\* consensus step and before the control step, carrying the estimate that
\* consensus step produced.
C7_OneEventPerTick ==
  /\ IsPrefix(steps, Pipeline)
  /\ TickOver => Len(published) = ticks
  /\ (pc = "control" /\ published # <<>>) =>
       published[Len(published)].stats = cons.estimated

\* C8: the codec round-trips: statsMsgToVector(statsVectorToMsg(v)) = v for
\* every 5-element vector v and statsVectorToMsg(statsMsgToVector(m)) = m for
\* every message m.
C8_CodecRoundTrip ==
  /\ (codec_pc = "vector_done" /\ Len(codec_in) = number_of_stats_) =>
        codec_out = codec_in
  /\ codec_pc = "message_done" => codec_out = codec_in

\* the gradient of phi(p) = (x, y, x^2, x*y, y^2) at p
GradPhi(p) == << <<1, 0>>, <<0, 1>>, <<2 * p.x, 0>>, <<p.y, p.x>>, <<0, 2 * p.y>> >>

\* C9: when control() solves the control law the Jacobian is the gradient of
\* phi at the current virtual position: rows (1,0), (0,1), (2x,0), (y,x),
\* (0,2y).
C9_JacobianIsGradient ==
  (ctl.started /\ ctl.completed) => ctl.jacobian = GradPhi(ctl.position)

\* C10: a solved command u of magnitude at most velocityVirtualThreshold is
\* used unscaled, a larger one is used scaled by threshold/magnitude (same
\* direction, magnitude exactly the threshold); the stored virtual velocity
\* never exceeds the threshold.
C10_CommandSaturation ==
  /\ (ctl.started /\ ctl.completed) =>
       LET u == ctl.control_law
           norm2 == u[1] * u[1] + u[2] * u[2]
           limit2 == velocity_virtual_threshold_ * velocity_virtual_threshold_
       IN IF norm2 <= limit2
            THEN ctl.used = u
            ELSE \A i \in 1..2 :
                   /\ ctl.used[i] * ctl.used[i] * norm2 = u[i] * u[i] * limit2
                   /\ ctl.used[i] * u[i] >= 0
  /\ twist_virtual_.x * twist_virtual_.x + twist_virtual_.y * twist_virtual_.y
       <= velocity_virtual_threshold_ * velocity_virtual_threshold_

\* C11: after control() the virtual twist (vx, vy) is (u_x, u_y) of the
\* saturated command, in that order, and the virtual position is
\* x + dt*(vx_old + u_x)/2, y + dt*(vy_old + u_y)/2.  The saturated command is
\* control_law, times threshold/magnitude when the step saturated; the
\* equalities are stated without the division.
C11_TwistIsCommand ==
  [][(pc = "control" /\ pc' = "guidance") =>
       LET u == ctl'.control_law
           num == IF ctl'.saturated THEN velocity_virtual_threshold_ ELSE 1
           den == IF ctl'.saturated THEN ctl'.magnitude ELSE 1
       IN /\ twist_virtual_'.x * den = u[1] * num
          /\ twist_virtual_'.y * den = u[2] * num
          /\ 2 * den * (pose_virtual_'.x - pose_virtual_.x)
               = sample_time_ * (den * twist_virtual_.x + num * u[1])
          /\ 2 * den * (pose_virtual_'.y - pose_virtual_.y)
               = sample_time_ * (den * twist_virtual_.y + num * u[2])]_vars

\* C12: dynamics() advances each of x, y and theta by dt*(rate_old + rate_new)/2
\* with rate_old the twist component the previous cycle stored and rate_new
\* the rate of this cycle, which the stored twist then takes.
C12_TrapezoidalDynamics ==
  [][(pc = "dynamics" /\ pc' = "idle") =>
       /\ pose_'.x = integrator(pose_.x, twist_.x, twist_'.x, 1)
       /\ pose_'.y = integrator(pose_.y, twist_.y, twist_'.y, 1)
       /\ pose_'.theta = integrator(pose_.theta, twist_.z, twist_'.z, 1)]_vars

\* C13: statsVectorToMsg called with a vector whose length is not the
\* statistics dimension returns the default-constructed message whatever the
\* vector holds, does not abort, and leaves the agent's state as it was.
C13_WrongSizeGivesDefault ==
  [][(codec_pc = "vector" /\ Len(codec_in) # number_of_stats_) =>
       /\ codec_pc' = "vector_encoded"
       /\ codec_mid' = DefaultMsg
       /\ agentVars' = agentVars]_vars

C13_Witness ==
  /\ codec_pc = "vector_encoded"
  /\ Len(codec_in) = number_of_stats_ - 1
  /\ \E i \in 1..Len(codec_in) : codec_in[i] # 0
  /\ eigen_assert
  /\ codec_mid = DefaultMsg

\* C14: with speed_min_ <= speed_max_ and steer_min_ <= steer_max_, every
\* guidance step leaves the saturated speed command in [speed_min_, speed_max_]
\* and the saturated steering command in [steer_min_, steer_max_], and the
\* dynamics step that follows takes its rates from these saturated values
\* only: a planar speed of magnitude speed_command_sat_ and a turn rate that
\* is zero when either command is zero.
C14_CommandsInRange ==
  [][/\ (pc = "guidance" /\ pc' = "dynamics") =>
          /\ speed_min_ <= speed_max_ /\ steer_min_ <= steer_max_
          /\ speed_min_ <= speed_command_sat_' /\ speed_command_sat_' <= speed_max_
          /\ steer_min_ <= steer_command_sat_' /\ steer_command_sat_' <= steer_max_
     /\ (pc = "dynamics" /\ pc' = "idle") =>
          /\ twist_'.x * twist_'.x + twist_'.y * twist_'.y
               = speed_command_sat_ * speed_command_sat_
          /\ twist_'.x * twist_'.x + twist_'.y * twist_'.y <= speed_max_ * speed_max_
          /\ (speed_command_sat_ = 0 \/ steer_command_sat_ = 0) => twist_'.z = 0]_vars

\* the PI command exceeded speed_max_ and the steering command exceeded
\* steer_max_ in the guidance step just taken, and both were clamped
C14_Witness ==
  /\ pc = "dynamics"
  /\ k_p_speed_ * (speed_error_ + speed_integral_) > speed_max_
  /\ speed_command_sat_ = speed_max_
  /\ k_p_steer_ * fmod(los_angle_ - pose_.theta, M_PI) > steer_max_
  /\ steer_command_sat_ = steer_max_

\* the PI command fell below speed_min_ and was clamped
C14_WitnessBelow ==
  /\ pc = "dynamics"
  /\ k_p_speed_ * (speed_error_ + speed_integral_) < speed_min_
  /\ speed_command_sat_ = speed_min_

\* C15: a tick of the packet manager on which the time since
\* time_last_packet_ exceeds serial_timeout_ shuts the process down without
\* reading the serial line or touching the queue, and no other tick shuts it
\* down; time_last_packet_ changes only in a tick that pops the oldest queued
\* packet, publishes it and pops no other; a tick that finds the queue empty
\* reads the serial line once and leaves time_last_packet_ as it was.
C15_PacketTick ==
  [][/\ (pm_ticks' # pm_ticks /\ pm_now - time_last_packet_ > serial_timeout_) =>
          /\ pm_state' = "shutdown"
          /\ pm_serial_reads' = pm_serial_reads
          /\ packet_queue_' = packet_queue_
          /\ pm_published' = pm_published
          /\ time_last_packet_' = time_last_packet_
     /\ pm_state' # pm_state =>
          pm_ticks' # pm_ticks /\ pm_now - time_last_packet_ > serial_timeout_
     /\ time_last_packet_' # time_last_packet_ =>
          /\ pm_ticks' # pm_ticks
          /\ packet_queue_ # <<>>
          /\ packet_queue_' = Tail(packet_queue_)
          /\ pm_published' = Append(pm_published, Head(packet_queue_))
          /\ pm_serial_reads' = pm_serial_reads
     /\ pm_published' # pm_published =>
          /\ pm_ticks' # pm_ticks
          /\ packet_queue_ # <<>>
          /\ packet_queue_' = Tail(packet_queue_)
          /\ pm_published' = Append(pm_published, Head(packet_queue_))
     /\ (/\ pm_ticks' # pm_ticks
         /\ packet_queue_ = <<>>
         /\ ~(pm_now - time_last_packet_ > serial_timeout_)) =>
          /\ pm_serial_reads' = pm_serial_reads + 1
          /\ time_last_packet_' = time_last_packet_
          /\ pm_published' = pm_published
          /\ pm_state' = pm_state]_vars

\* a tick has popped and published the oldest of two queued packets and moved
\* time_last_packet_, the other packet is still queued
C15_Witness ==
  /\ pm_state = "running"
  /\ pm_published = <<1>>
  /\ packet_queue_ = <<2>>
  /\ time_last_packet_ > 0
  /\ pm_serial_reads = 1

\* the timeout has shut the node down with a packet still queued
C15_WitnessTimeout ==
  /\ pm_state = "shutdown"
  /\ packet_queue_ # <<>>

=============================================================================
